---- MODULE Spec2Model ----
(***************************************************************************)
(* Model of src/lib/logger.ts: the format() interpolator, the Logger       *)
(* constructor with validateOptions, the formatters, getCallerInfo, log    *)
(* and the level accessor.                                                 *)
(*                                                                         *)
(* JavaScript values are abstracted to tags (JsValues); text is a sequence *)
(* of atoms, each atom an indivisible run of characters.                   *)
(***************************************************************************)
EXTENDS Integers, Sequences, FiniteSets, TLC

VARIABLES
    constructed,        \* TRUE once `new Logger(options)` has returned
    options,            \* this.options
    isRedirected,       \* this.isRedirected
    formatters,         \* this.formatters (the registry, a public field)
    callerErrorCount,   \* this.callerErrorCount
    last,               \* the most recent call and what it did
    levelInEffect,      \* history: the level given at construction or to the
                        \* most recent level setter call that returned
    prepareStackTrace,  \* the process-global Error.prepareStackTrace
    peer                \* a second Logger instance of the same process

vars == <<constructed, options, isRedirected, formatters, callerErrorCount, last,
          levelInEffect, prepareStackTrace, peer>>

(***************************************************************************)
(* Bounds                                                                  *)
(***************************************************************************)
MaxTemplateLen == 2     \* tokens in a text template
MaxArgs == 2            \* extra arguments of a format call
MaxCallerErrorCount == 6 \* cap on the caller-failure counter

(***************************************************************************)
(* JavaScript values                                                       *)
(***************************************************************************)
Undef == "undefined"
Nul == "null"

\* "str" is the string 'a', "num" the number 1.5, "arr" the array [1,2],
\* "obj" the object {k:'v'}, "circ" an object whose field self is itself,
\* "sym" a Symbol, "thrower" an object whose toString and valueOf throw,
\* "fnthrow" a function whose toString throws.
JsValues == {"str", "num", Nul, Undef, "arr", "obj", "circ", "sym", "thrower", "fnthrow"}

\* typeof v === "object" for a non-null v
IsObject(v) == v \in {"arr", "obj", "circ", "thrower"}

\* String(v): the values whose conversion throws
StringThrows(v) == v \in {"thrower", "fnthrow"}

StringOf(v) ==
    CASE v = "str" -> "a"
      [] v = "num" -> "1.5"
      [] v = Nul -> "null"
      [] v = Undef -> "undefined"
      [] v = "arr" -> "1,2"
      [] v = "obj" -> "[object Object]"
      [] v = "circ" -> "[object Object]"
      [] v = "sym" -> "Symbol(s)"
      [] OTHER -> "?"

\* Number(v): the values whose coercion throws
NumberThrows(v) == v \in {"sym", "thrower", "fnthrow"}

\* String(Number(v)), String(parseInt(String(Number(v)), 10)) and
\* String(parseFloat(String(Number(v)))), by specifier
NumberText(spec, v) ==
    CASE v = "num" /\ spec = "%i" -> "1"
      [] v = "num" -> "1.5"
      [] v = Nul -> "0"
      [] OTHER -> "NaN"

\* mutant of StringifyThrows: serialization never fails
StringifyThrowsNever(v) == FALSE

\* JSON.stringify(v) throws on a self-referential structure
StringifyThrows(v) == v = "circ"

\* JSON.stringify(v); it returns undefined (not text) for undefined, a
\* symbol and a function, which the replace callback's caller turns into
\* the text "undefined"
StringifyOf(v) ==
    CASE v = "str" -> "\"a\""
      [] v = "num" -> "1.5"
      [] v = Nul -> "null"
      [] v = "arr" -> "[1,2]"
      [] v = "obj" -> "{\"k\":\"v\"}"
      [] v = "thrower" -> "{}"
      [] OTHER -> "undefined"

\* the display form of an object argument: `[ e1, e2 ]` for an array, and
\* `{ k: v }` from Object.entries for any other object
ObjectDisplay(v) ==
    CASE v = "arr" -> "[ 1, 2 ]"
      [] v = "obj" -> "{ k: 'v' }"
      [] v = "circ" -> "{ self: [object Object] }"
      [] v = "thrower" -> "{ toString: function, valueOf: function }"
      [] OTHER -> "[object Object]"

Ok(t) == [ok |-> TRUE, text |-> t]
Raise == [ok |-> FALSE, text |-> <<>>]

\* the map callback of the non-text-template branch
JoinDisplay(v) ==
    IF v = Nul THEN Ok(<<"null">>)
    ELSE IF v = Undef THEN Ok(<<"undefined">>)
    ELSE IF IsObject(v)
         THEN IF StringifyThrows(v) THEN Ok(<<"[object Object]">>)
              ELSE Ok(<<StringifyOf(v)>>)
    ELSE IF StringThrows(v) THEN Raise
    ELSE Ok(<<StringOf(v)>>)

\* the map callback applied to the remaining arguments
TrailingDisplay(v) ==
    IF v = Nul THEN Ok(<<"null">>)
    ELSE IF v = Undef THEN Ok(<<"undefined">>)
    ELSE IF IsObject(v) THEN Ok(<<ObjectDisplay(v)>>)
    ELSE IF StringThrows(v) THEN Raise
    ELSE Ok(<<StringOf(v)>>)

\* the switch inside the replace callback, for one specifier and its argument
Substitute(spec, v) ==
    CASE spec = "%s" ->
            IF v = Nul THEN Ok(<<"null">>)
            ELSE IF v = Undef THEN Ok(<<"undefined">>)
            ELSE IF IsObject(v) THEN Ok(<<ObjectDisplay(v)>>)
            ELSE IF StringThrows(v) THEN Ok(<<"[object Object]">>)
            ELSE Ok(<<StringOf(v)>>)
      [] spec \in {"%d", "%i", "%f"} ->
            IF v = Nul THEN Ok(<<"0">>)
            ELSE IF v = Undef THEN Ok(<<"NaN">>)
            ELSE IF NumberThrows(v) THEN Raise
            ELSE Ok(<<NumberText(spec, v)>>)
      [] spec = "%j" ->
            IF StringifyThrows(v) THEN Ok(<<"[Circular]">>)
            ELSE Ok(<<StringifyOf(v)>>)
      [] OTHER -> Ok(<<spec>>)

Specifiers == {"%s", "%d", "%i", "%f", "%j"}
Literals == {"x"}
Tokens == Literals \cup Specifiers \cup {"%%"}

\* mutant of handlePercentPercent: %% collapses whatever the argument count
handlePercentPercentAlways(args) == "%"

\* what every %% of the template is replaced by
handlePercentPercent(args) == IF Len(args) = 0 THEN "%%" ELSE "%"

\* f.replace(/%[sdifj%]/g, callback): the tokens of the template from left
\* to right, i the number of arguments consumed so far
RECURSIVE ReplaceAll(_, _, _)
ReplaceAll(toks, args, i) ==
    IF toks = <<>> THEN [ok |-> TRUE, text |-> <<>>, i |-> i]
    ELSE LET t == Head(toks) IN
         IF t = "%%"
         THEN LET r == ReplaceAll(Tail(toks), args, i) IN
              [r EXCEPT !.text = <<handlePercentPercent(args)>> \o @]
         ELSE IF t \notin Specifiers \/ i >= Len(args)
         THEN LET r == ReplaceAll(Tail(toks), args, i) IN
              [r EXCEPT !.text = <<t>> \o @]
         ELSE LET s == Substitute(t, args[i + 1]) IN
              IF ~s.ok THEN [ok |-> FALSE, text |-> <<>>, i |-> i + 1]
              ELSE LET r == ReplaceAll(Tail(toks), args, i + 1) IN
                   [r EXCEPT !.text = s.text \o @]

\* ds.join(" ") for the results ds of a map, raising when one of them raised
RECURSIVE JoinSpace(_)
JoinSpace(ds) ==
    IF ds = <<>> THEN Ok(<<>>)
    ELSE LET d == Head(ds)
             r == JoinSpace(Tail(ds)) IN
         IF ~d.ok \/ ~r.ok THEN Raise
         ELSE IF Tail(ds) = <<>> THEN d
         ELSE Ok(d.text \o <<" ">> \o r.text)

TextTemplate(toks) == [text |-> TRUE, toks |-> toks, v |-> Undef]
ValueTemplate(v) == [text |-> FALSE, toks |-> <<>>, v |-> v]

\* mutant of format: the arguments left over are not appended
formatNoTrailing(f, args) ==
    IF ~f.text
    THEN LET all == <<f.v>> \o args IN
         JoinSpace([k \in DOMAIN all |-> JoinDisplay(all[k])])
    ELSE LET r == ReplaceAll(f.toks, args, 0) IN
         IF ~r.ok THEN Raise ELSE Ok(r.text)

\* format(f, ...args); f is a text template, the sequence toks of its
\* literal runs and specifiers, or (text = FALSE) the value v
format(f, args) ==
    IF ~f.text
    THEN LET all == <<f.v>> \o args IN
         JoinSpace([k \in DOMAIN all |-> JoinDisplay(all[k])])
    ELSE LET r == ReplaceAll(f.toks, args, 0) IN
         IF ~r.ok THEN Raise
         ELSE LET remainingArgs == SubSeq(args, r.i + 1, Len(args)) IN
              IF Len(remainingArgs) > 0
              THEN LET t == JoinSpace([k \in DOMAIN remainingArgs |->
                                            TrailingDisplay(remainingArgs[k])]) IN
                   IF ~t.ok THEN Raise
                   ELSE Ok(r.text \o <<" ">> \o t.text)
              ELSE Ok(r.text)

(***************************************************************************)
(* Construction                                                            *)
(***************************************************************************)
\* an option that holds an object, a string, null or nothing
Absent == [t |-> "undefined", v |-> <<>>]
NullValue == [t |-> "null", v |-> <<>>]
StringValue == [t |-> "string", v |-> <<>>]
ObjectValue(entries) == [t |-> "object", v |-> entries]

\* typeof x
TypeOf(x) == IF x.t = "null" THEN "object" ELSE x.t

\* the values of a `levels` object: an integer, the number 1.5, a string
IntV(n) == [t |-> "number", n |-> n, frac |-> FALSE]
FracV == [t |-> "number", n |-> 1, frac |-> TRUE]
StrV == [t |-> "string", n |-> 0, frac |-> FALSE]

defaultLevels == [silent |-> -1, error |-> 0, warn |-> 1, info |-> 2, debug |-> 3]

defaultColours ==
    [error |-> "ESC[91m", warn |-> "ESC[33m", info |-> "ESC[94m",
     debug |-> "ESC[37m", reset |-> "ESC[0m"]

validLevels == <<"silent", "error", "warn", "info", "debug">>
validFormats == <<"json", "simple">>
validTimes == <<"long", "short">>

Includes(seq, x) == \E i \in DOMAIN seq : seq[i] = x

NoError == [kind |-> "none", about |-> ""]
Failure(kind, about) == [kind |-> kind, about |-> about]

\* the condition under which the loop over Object.entries(options.levels) throws
BadLevelValue(value) == value.t # "number" \/ value.n < 0 \/ value.frac

\* the for loop of validateOptions: the failure for the first bad entry
RECURSIVE CheckLevelEntries(_)
CheckLevelEntries(entries) ==
    IF entries = <<>> THEN NoError
    ELSE IF BadLevelValue(Head(entries)[2])
         THEN Failure("Level value must be a non-negative integer", Head(entries)[1])
         ELSE CheckLevelEntries(Tail(entries))

\* validateOptions: the first throw reached, or NoError
validateOptions(o) ==
    IF o.level # Undef /\ ~Includes(validLevels, o.level)
    THEN Failure("Invalid log level", o.level)
    ELSE IF o.format # Undef /\ ~Includes(validFormats, o.format)
    THEN Failure("Invalid format", o.format)
    ELSE IF o.time # Undef /\ ~Includes(validTimes, o.time)
    THEN Failure("Invalid time", o.time)
    ELSE IF o.callerLevel # Undef /\ ~Includes(validLevels, o.callerLevel)
    THEN Failure("Invalid callerLevel", o.callerLevel)
    ELSE IF o.colours.t # "undefined" /\ TypeOf(o.colours) # "object"
    THEN Failure("colours option must be an object", "")
    ELSE IF o.levels.t # "undefined"
    THEN IF TypeOf(o.levels) # "object"
         THEN Failure("levels option must be an object", "")
         ELSE IF o.levels.t = "null"
         THEN Failure("TypeError: Cannot convert undefined or null to object", "")
         ELSE CheckLevelEntries(o.levels.v)
    ELSE NoError

\* Object.assign({}, base, source) for a source given as its entries; a
\* null or undefined source contributes nothing
RECURSIVE AssignEntries(_, _)
AssignEntries(base, entries) ==
    IF entries = <<>> THEN base
    ELSE LET k == Head(entries)[1]
             merged == [x \in (DOMAIN base) \cup {k} |->
                          IF x = k THEN Head(entries)[2] ELSE base[x]]
         IN AssignEntries(merged, Tail(entries))

Numbers(entries) == [i \in DOMAIN entries |-> <<entries[i][1], entries[i][2].n>>]

Default(x, d) == IF x = Undef THEN d ELSE x

\* mutant of MakeOptions: the supplied levels are not merged in
MakeOptionsDefaultLevels(o) ==
    [level |-> Default(o.level, "info"),
     levels |-> defaultLevels,
     format |-> Default(o.format, "json"),
     time |-> Default(o.time, "short"),
     callerLevel |-> Default(o.callerLevel, "warn"),
     colours |-> AssignEntries(defaultColours,
                    IF o.colours.t = "object" THEN o.colours.v ELSE <<>>)]

\* the object assigned to this.options
MakeOptions(o) ==
    [level |-> Default(o.level, "info"),
     levels |-> AssignEntries(defaultLevels,
                    IF o.levels.t = "object" THEN Numbers(o.levels.v) ELSE <<>>),
     format |-> Default(o.format, "json"),
     time |-> Default(o.time, "short"),
     callerLevel |-> Default(o.callerLevel, "warn"),
     colours |-> AssignEntries(defaultColours,
                    IF o.colours.t = "object" THEN o.colours.v ELSE <<>>)]

builtinFormatters == [json |-> "jsonFormatter", simple |-> "simpleFormatter"]

maxCallerErrors == 5

\* the fields of a logger that does not exist
None == "none"

\* the peer logger of a process that has one logger only
NoPeer == [exists |-> FALSE, callerErrorCount |-> 0]

\* new Logger(o) with isTerminal() returning tty
Construct(o, tty) ==
    /\ ~constructed
    /\ LET v == validateOptions(o) IN
       /\ last' = [op |-> "new", opts |-> o, error |-> v]
       /\ IF v.kind = "none"
          THEN /\ constructed' = TRUE
               /\ options' = MakeOptions(o)
               /\ isRedirected' = ~tty
               /\ formatters' = builtinFormatters
               /\ callerErrorCount' = 0
               /\ levelInEffect' = Default(o.level, "info")
          ELSE UNCHANGED <<constructed, options, isRedirected, formatters, callerErrorCount,
                           levelInEffect>>
    /\ UNCHANGED <<prepareStackTrace, peer>>

(***************************************************************************)
(* Formatters                                                              *)
(***************************************************************************)
\* text made by JSON.stringify of an object: undefined-valued fields are left out
JsonText(rec) ==
    LET dropped == IF "levelNumber" \in DOMAIN rec
                   THEN (IF rec.levelNumber.def THEN {} ELSE {"levelNumber"})
                   ELSE {}
    IN [kind |-> "json", obj |-> [k \in (DOMAIN rec) \ dropped |-> rec[k]]]

PlainText(atoms) == [kind |-> "text", atoms |-> atoms]

\* String(msg).replace(/"/g, '"')
ReplaceQuotes(msg) == [i \in DOMAIN msg |-> IF msg[i] = "\"" THEN "\"" ELSE msg[i]]

\* mutant of SafeFields: a field attached to the record is kept as well
SafeFieldsAndExtra == {"level", "levelNumber", "time", "pid", "hostname", "msg", "callerFile", "callerLine", "extra"}

\* the fields the retry of jsonFormatter copies
SafeFields == {"level", "levelNumber", "time", "pid", "hostname", "msg", "callerFile", "callerLine"}

\* jsonFormatter; faults is the number of JSON.stringify calls that throw
\* whatever they are given (0 unless JSON.stringify was replaced)
jsonFormatter(logEntry, faults) ==
    IF "circular" \notin DOMAIN logEntry /\ faults = 0
    THEN JsonText(logEntry)
    ELSE LET message == IF faults > 0 THEN "Mock JSON error"
                        ELSE "Converting circular structure to JSON"
             safeEntry == [k \in (DOMAIN logEntry) \cap SafeFields |-> logEntry[k]]
                          @@ [jsonError |-> "JSON stringify failed: " \o message]
         IN IF faults < 2
            THEN JsonText(safeEntry)
            ELSE PlainText(<<"{\"level\":\"", logEntry.level, "\",\"msg\":\"">>
                           \o ReplaceQuotes(logEntry.msg)
                           \o <<"\",\"jsonError\":\"Multiple JSON errors occurred\"}">>)

\* level.toUpperCase()
ToUpperCase(level) ==
    CASE level = "silent" -> "SILENT"
      [] level = "error" -> "ERROR"
      [] level = "warn" -> "WARN"
      [] level = "info" -> "INFO"
      [] level = "debug" -> "DEBUG"
      [] level = "custom" -> "CUSTOM"
      [] OTHER -> "BOGUS"

\* s.padEnd(n)
RECURSIVE PadEnd(_, _)
PadEnd(s, n) == IF Len(s) >= n THEN s ELSE PadEnd(s \o " ", n)

\* a file path is the sequence of its components; path.split("/").pop()
Basename(path) == path[Len(path)]

\* mutant of simpleFormatter: the level is not padded
simpleFormatterUnpadded(logEntry) ==
    LET levelPadded == ToUpperCase(logEntry.level)
        hasCaller == "callerFile" \in DOMAIN logEntry /\ logEntry.callerFile # <<"">>
    IN IF hasCaller
       THEN PlainText(<<"[">> \o logEntry.time \o <<"] [", levelPadded, "] [",
                        Basename(logEntry.callerFile), ":", ToString(logEntry.callerLine), "] ">>
                      \o logEntry.msg)
       ELSE PlainText(<<"[">> \o logEntry.time \o <<"] [", levelPadded, "] ">> \o logEntry.msg)

simpleFormatter(logEntry) ==
    LET levelPadded == PadEnd(ToUpperCase(logEntry.level), 5)
        hasCaller == "callerFile" \in DOMAIN logEntry /\ logEntry.callerFile # <<"">>
    IN IF hasCaller
       THEN PlainText(<<"[">> \o logEntry.time \o <<"] [", levelPadded, "] [",
                        Basename(logEntry.callerFile), ":", ToString(logEntry.callerLine), "] ">>
                      \o logEntry.msg)
       ELSE PlainText(<<"[">> \o logEntry.time \o <<"] [", levelPadded, "] ">> \o logEntry.msg)

\* what may sit in a slot of the registry: the two built-ins, a function
\* that throws, one that returns an object, one that attaches a
\* self-referential field and calls the built-in jsonFormatter, and nothing
FormatterKinds == {"jsonFormatter", "simpleFormatter", "throws", "nonString", "addCircular", Undef}

NotAString == [kind |-> "object"]

Returned(val) == [threw |-> FALSE, reason |-> "", val |-> val]
Threw(reason) == [threw |-> TRUE, reason |-> reason, val |-> NotAString]

\* formatter(logEntry) for the function found in a slot
InvokeFormatter(kind, logEntry) ==
    CASE kind = "jsonFormatter" -> Returned(jsonFormatter(logEntry, 0))
      [] kind = "simpleFormatter" -> Returned(simpleFormatter(logEntry))
      [] kind = "throws" -> Threw("Custom formatter error")
      [] kind = "nonString" -> Returned(NotAString)
      [] kind = "addCircular" -> Returned(jsonFormatter([circular |-> "circ"] @@ logEntry, 0))
      [] OTHER -> Threw("formatter is not a function")

IsString(val) == val.kind # "object"

(***************************************************************************)
(* Caller lookup                                                           *)
(***************************************************************************)
LoggerFile == <<"lib", "logger.ts">>
AppFile == <<"app", "main.ts">>
UnknownFile == <<"unknown">>

Frame(file, line) == [file |-> file, line |-> line]

\* err.stack once prepareStackTrace returns the structured stack: an array
\* of call sites, or a value that is not one
StackOf(frames) == [array |-> TRUE, frames |-> frames]
NoStack == [array |-> FALSE, frames |-> <<>>]

\* the while loop of getCallerInfo
RECURSIVE WalkStack(_, _, _)
WalkStack(frames, currentFile, callerFile) ==
    IF frames = <<>> THEN [callerFile |-> callerFile, callerLine |-> 0]
    ELSE LET stackFrame == Head(frames) IN
         IF currentFile # stackFrame.file
         THEN [callerFile |-> stackFrame.file, callerLine |-> stackFrame.line]
         ELSE WalkStack(Tail(frames), currentFile, stackFrame.file)

\* the try block throws when err.stack is not an array of call sites or
\* when it is empty (stack.shift() is then undefined)
LookupThrows(stack) == ~stack.array \/ stack.frames = <<>>

\* mutant of CallerDiagnostics: < in place of <=
CallerDiagnosticsEarly(count) ==
    IF count < maxCallerErrors THEN <<"Error retrieving caller info">> ELSE <<>>

\* what the catch block writes with console.error when the counter reaches count
CallerDiagnostics(count) ==
    IF count <= maxCallerErrors
    THEN IF count = maxCallerErrors
         THEN <<"Error retrieving caller info", "Suppressing further caller error messages">>
         ELSE <<"Error retrieving caller info">>
    ELSE <<>>

\* getCallerInfo of an instance whose counter is count: the pair returned,
\* the counter afterwards, the diagnostics
CallerLookup(count, stack) ==
    IF LookupThrows(stack)
    THEN [callerFile |-> UnknownFile, callerLine |-> 0, failed |-> TRUE,
          count |-> count + 1,
          diag |-> CallerDiagnostics(count + 1)]
    ELSE LET w == WalkStack(Tail(stack.frames), Head(stack.frames).file, UnknownFile)
         IN [callerFile |-> w.callerFile, callerLine |-> w.callerLine, failed |-> FALSE,
             count |-> 0, diag |-> <<>>]

\* getCallerInfo of this logger
getCallerInfo(stack) == CallerLookup(callerErrorCount, stack)

\* the function getCallerInfo installs as Error.prepareStackTrace
StructuredHook == "function (_err, stack) { return stack }"

\* mutant of HookAssignments: the hook is restored at the end of the try
\* block, not in a finally
HookAssignmentsNoFinally(originalFunc, stack) ==
    IF LookupThrows(stack) THEN <<StructuredHook>> ELSE <<StructuredHook, originalFunc>>

\* the values getCallerInfo assigns to Error.prepareStackTrace, in order:
\* its own function in the try block, the saved originalFunc in the finally
HookAssignments(originalFunc, stack) == <<StructuredHook, originalFunc>>

\* Error.prepareStackTrace when getCallerInfo returns
HookAfter(hook, stack) ==
    LET assigned == HookAssignments(hook, stack) IN assigned[Len(assigned)]

(***************************************************************************)
(* log                                                                     *)
(***************************************************************************)
\* table[name]: a number, or undefined when name is not a key
Lookup(table, name) ==
    IF name \in DOMAIN table THEN [def |-> TRUE, n |-> table[name]]
    ELSE [def |-> FALSE, n |-> 0]

\* a > b and a <= b on values that may be undefined (then false)
JsGt(a, b) == a.def /\ b.def /\ a.n > b.n
JsLe(a, b) == a.def /\ b.def /\ a.n <= b.n

\* mutant of Gate: the threshold is one rank too high
GateOffByOne(level) ==
    LET l == Lookup(options.levels, level)
        c == Lookup(options.levels, options.level)
    IN l.def /\ c.def /\ l.n > c.n + 1

\* the first statement of log: the call is discarded
Gate(level) ==
    JsGt(Lookup(options.levels, level), Lookup(options.levels, options.level))

\* mutant of shouldIncludeCaller: < in place of <=
shouldIncludeCallerStrict(level) ==
    LET l == Lookup(options.levels, level)
        c == Lookup(options.levels, options.callerLevel)
    IN l.def /\ c.def /\ l.n < c.n

shouldIncludeCaller(level) ==
    JsLe(Lookup(options.levels, level), Lookup(options.levels, options.callerLevel))

\* now.toISOString()
IsoNow == <<"2024-01-15", "T", "10:30", ":00.000Z">>

\* iso.slice(0, 16).replace("T", " ")
ShortTime(iso) ==
    LET cut == SubSeq(iso, 1, 3) IN [i \in DOMAIN cut |-> IF cut[i] = "T" THEN " " ELSE cut[i]]

Pid == 1234
Hostname == "localhost"

\* the logEntry built by log, caller info included when it was requested
MakeEntry(level, msg, include, info) ==
    LET base == [level |-> level,
                 levelNumber |-> Lookup(options.levels, level),
                 time |-> IF options.time = "long" THEN IsoNow ELSE ShortTime(IsoNow),
                 pid |-> Pid,
                 hostname |-> Hostname,
                 msg |-> msg]
    IN IF include
       THEN base @@ [callerFile |-> info.callerFile, callerLine |-> info.callerLine]
       ELSE base

\* this.formatters[this.options.format] || this.formatters.json
SelectFormatter == IF formatters[options.format] # Undef THEN formatters[options.format]
                   ELSE formatters.json

\* mutant of FallbackEntry: the diagnostic is not attached
FallbackEntryBare(logEntry, reason) == logEntry

\* { ...logEntry, formatterError: `Formatter failed: ${reason}` }
FallbackEntry(logEntry, reason) ==
    [formatterError |-> "Formatter failed: " \o reason] @@ logEntry

\* mutant of MinimalText: the diagnostic does not carry the reason
MinimalTextNoReason(logEntry, reason) ==
    PlainText(<<"{\"level\":\"", logEntry.level, "\",\"msg\":\"">>
              \o ReplaceQuotes(logEntry.msg)
              \o <<"\",\"formatterError\":\"Formatter failed: ", "\"}">>)

\* the template string of the innermost catch of log
MinimalText(logEntry, reason) ==
    PlainText(<<"{\"level\":\"", logEntry.level, "\",\"msg\":\"">>
              \o ReplaceQuotes(logEntry.msg)
              \o <<"\",\"formatterError\":\"Formatter failed: ", reason, "\"}">>)

\* the guarded render of log: the text to write and the formatters invoked
Render(logEntry) ==
    LET formatter == SelectFormatter
        first == InvokeFormatter(formatter, logEntry)
    IN IF ~first.threw /\ IsString(first.val)
       THEN [formattedLog |-> first.val, invoked |-> <<formatter>>]
       ELSE LET reason == IF first.threw THEN first.reason
                          ELSE "Formatter returned object instead of string"
                safeEntry == FallbackEntry(logEntry, reason)
                second == InvokeFormatter(formatters.json, safeEntry)
            IN IF ~second.threw
               THEN [formattedLog |-> second.val, invoked |-> <<formatter, formatters.json>>]
               ELSE [formattedLog |-> MinimalText(logEntry, reason),
                     invoked |-> <<formatter, formatters.json>>]

\* `${x}` for a colour code that may be missing from the table
ColourOf(name) == IF name \in DOMAIN options.colours THEN options.colours[name] ELSE "undefined"

\* mutant of Painted: the colour codes are written to a redirected sink too
PaintedAlways(level, formattedLog) ==
    [kind |-> "coloured",
     colour |-> ColourOf(level),
     body |-> IF IsString(formattedLog) THEN formattedLog
              ELSE PlainText(<<"[object Object]">>),
     reset |-> ColourOf("reset")]

\* the argument of console.log; a template literal turns an object into text
Painted(level, formattedLog) ==
    IF isRedirected THEN formattedLog
    ELSE [kind |-> "coloured",
          colour |-> ColourOf(level),
          body |-> IF IsString(formattedLog) THEN formattedLog
                   ELSE PlainText(<<"[object Object]">>),
          reset |-> ColourOf("reset")]

\* mutant of ConsoleLog: a write that raised is caught and made again
ConsoleLogRetried(sinkOk, line) == [raised |-> FALSE, lines |-> <<line>>]

\* console.log(line) with a sink that works or throws
ConsoleLog(sinkOk, line) ==
    [raised |-> ~sinkOk, lines |-> IF sinkOk THEN <<line>> ELSE <<>>]

NoLookup == [callerFile |-> UnknownFile, callerLine |-> 0, failed |-> FALSE,
             count |-> 0, diag |-> <<>>]

\* what `last` holds in place of an input the call never looked at
Unused == [f |-> TextTemplate(<<>>), args |-> <<>>]

\* log(level, message, ...args) with err.stack = stack and a console.log
\* that works or throws: what the call did, as recorded in `last`
LogResult(level, message, stack, sinkOk) ==
    IF Gate(level)
    THEN [op |-> "log", level |-> level, message |-> Unused, stack |-> NoStack,
          sinkOk |-> TRUE, outcome |-> "gated", lookups |-> 0,
          lookupFailed |-> FALSE, diag |-> <<>>, entry |-> <<>>, invoked |-> <<>>,
          written |-> <<>>, count |-> callerErrorCount]
    ELSE LET include == shouldIncludeCaller(level)
             info == IF include THEN getCallerInfo(stack) ELSE NoLookup
             count == IF include THEN info.count ELSE callerErrorCount
             m == format(message.f, message.args)
             common == [op |-> "log", level |-> level, message |-> message,
                        stack |-> IF include THEN stack ELSE NoStack,
                        sinkOk |-> sinkOk,
                        lookups |-> IF include THEN 1 ELSE 0,
                        lookupFailed |-> info.failed, diag |-> info.diag, count |-> count]
         IN IF ~m.ok
            THEN common @@ [outcome |-> "formatRaised", entry |-> <<>>, invoked |-> <<>>,
                            written |-> <<>>]
            ELSE LET logEntry == MakeEntry(level, m.text, include, info)
                     r == Render(logEntry)
                     w == ConsoleLog(sinkOk, Painted(level, r.formattedLog))
                 IN common @@ [outcome |-> IF w.raised THEN "sinkRaised" ELSE "written",
                               entry |-> <<logEntry>>, invoked |-> r.invoked,
                               written |-> w.lines]

\* mutant of Log: a call that fell back to the json formatter leaves the
\* logger in json mode
LogKeepingFallback(level, message, stack, sinkOk) ==
    /\ constructed
    /\ LET r == LogResult(level, message, stack, sinkOk) IN
       /\ r.count <= MaxCallerErrorCount
       /\ last' = r
       /\ callerErrorCount' = r.count
       /\ options' = [options EXCEPT !.format = IF Len(r.invoked) = 2 THEN "json" ELSE @]
       /\ prepareStackTrace' = IF r.lookups = 1 THEN HookAfter(prepareStackTrace, stack)
                               ELSE prepareStackTrace
    /\ UNCHANGED <<constructed, isRedirected, formatters, levelInEffect, peer>>

Log(level, message, stack, sinkOk) ==
    /\ constructed
    /\ LET r == LogResult(level, message, stack, sinkOk) IN
       /\ r.count <= MaxCallerErrorCount
       /\ last' = r
       /\ callerErrorCount' = r.count
       /\ prepareStackTrace' = IF r.lookups = 1 THEN HookAfter(prepareStackTrace, stack)
                               ELSE prepareStackTrace
    /\ UNCHANGED <<constructed, options, isRedirected, formatters, levelInEffect, peer>>

(***************************************************************************)
(* The level accessor                                                      *)
(***************************************************************************)
\* the arguments of a call: none, or one value
NoArgs == [given |-> FALSE, v |-> Undef]
Arg(v) == [given |-> TRUE, v |-> v]

\* mutant of level: the name is validated against the built-in names
levelBuiltinOnly(a) ==
    IF a.given /\ a.v # Undef
    THEN IF Includes(validLevels, a.v)
         THEN [raised |-> FALSE, level |-> a.v]
         ELSE [raised |-> TRUE, level |-> options.level]
    ELSE [raised |-> FALSE, level |-> options.level]

\* level(newLevel): whether it throws, and the level afterwards
level(a) ==
    IF a.given /\ a.v # Undef
    THEN IF a.v \in DOMAIN options.levels
         THEN [raised |-> FALSE, level |-> a.v]
         ELSE [raised |-> TRUE, level |-> options.level]
    ELSE [raised |-> FALSE, level |-> options.level]

\* mutant of setLevel: the name is assigned without being looked up
setLevelUnchecked(a) ==
    IF ~a.given THEN level(NoArgs) ELSE [raised |-> FALSE, level |-> a.v]

\* setLevel(newLevel)
setLevel(a) == IF ~a.given THEN level(NoArgs) ELSE level(Arg(a.v))

\* mutant of LevelCall: a level call clears the caller-failure counter
LevelCallClearing(method, a) ==
    /\ constructed
    /\ LET r == IF method = "setLevel" THEN setLevel(a) ELSE level(a) IN
       /\ options' = [options EXCEPT !.level = r.level]
       /\ last' = [op |-> "level", method |-> method, arg |-> a, raised |-> r.raised,
                   returned |-> IF r.raised THEN <<>> ELSE <<r.level>>,
                   before |-> options.level]
       /\ levelInEffect' = IF a.given /\ a.v # Undef /\ ~r.raised THEN a.v ELSE levelInEffect
    /\ callerErrorCount' = 0
    /\ UNCHANGED <<constructed, isRedirected, formatters, prepareStackTrace, peer>>

LevelCall(method, a) ==
    /\ constructed
    /\ LET r == IF method = "setLevel" THEN setLevel(a) ELSE level(a) IN
       /\ options' = [options EXCEPT !.level = r.level]
       /\ last' = [op |-> "level", method |-> method, arg |-> a, raised |-> r.raised,
                   returned |-> IF r.raised THEN <<>> ELSE <<r.level>>,
                   before |-> options.level]
       /\ levelInEffect' = IF a.given /\ a.v # Undef /\ ~r.raised THEN a.v ELSE levelInEffect
    /\ UNCHANGED <<constructed, isRedirected, formatters, callerErrorCount, prepareStackTrace, peer>>

\* logger.formatters[slot] = f (or delete logger.formatters[slot])
AssignFormatter(slot, kind) ==
    /\ constructed
    /\ formatters' = [formatters EXCEPT ![slot] = kind]
    /\ last' = [op |-> "assign", slot |-> slot, kind |-> kind]
    /\ UNCHANGED <<constructed, options, isRedirected, callerErrorCount, levelInEffect, prepareStackTrace, peer>>

Init ==
    /\ constructed = FALSE
    /\ options = None
    /\ isRedirected = None
    /\ formatters = None
    /\ callerErrorCount = None
    /\ levelInEffect = None
    /\ prepareStackTrace = Undef
    /\ peer = NoPeer
    /\ last = [op |-> "none"]

(***************************************************************************)
(* Inputs                                                                  *)
(***************************************************************************)
BoundedSeqs(S, n) == UNION {[1..k -> S] : k \in 0..n}

Templates ==
    {TextTemplate(t) : t \in BoundedSeqs(Tokens, MaxTemplateLen)}
    \cup {ValueTemplate(v) : v \in JsValues \ {"str"}}

ArgLists == BoundedSeqs(JsValues, MaxArgs)

Message(toks, args) == [f |-> TextTemplate(toks), args |-> args]

\* a plain message, one with an argument, one whose %d argument is a Symbol
Messages == {Message(<<"x">>, <<>>), Message(<<"x", "%s">>, <<"str">>),
             Message(<<"%d">>, <<"sym">>)}

\* the messages of Spec: the plain one and the one with the Symbol
GateMessages == {Message(<<"x">>, <<>>), Message(<<"%d">>, <<"sym">>)}

LevelNames == {"silent", "error", "warn", "info", "debug", "custom", "bogus"}

\* the stack of logger.error(...) called from application code
CallerStack ==
    StackOf(<<Frame(LoggerFile, 588), Frame(LoggerFile, 637), Frame(LoggerFile, 728),
              Frame(AppFile, 42)>>)

\* the same with no frame outside the logger's file; an empty stack
\* (stackTraceLimit 0); an engine whose err.stack is not an array of call sites
Stacks ==
    {CallerStack,
     StackOf(<<Frame(LoggerFile, 588), Frame(LoggerFile, 637), Frame(LoggerFile, 728)>>),
     StackOf(<<>>),
     NoStack}

LevelArgs == {NoArgs, Arg(Undef)} \cup {Arg(n) : n \in LevelNames}

Opts(lv, lvs, fmt, tm, cl, cols) ==
    [level |-> lv, levels |-> lvs, format |-> fmt, time |-> tm, callerLevel |-> cl,
     colours |-> cols]

CustomLevels == ObjectValue(<<(<<"custom", IntV(4)>>)>>)
SilentRaised == ObjectValue(<<(<<"silent", IntV(5)>>)>>)

\* the options the loggers of Spec are built with
LoggerOptions ==
    {Opts(lv, lvs, Undef, Undef, cl, Absent) :
        lv \in {Undef, "silent", "bogus"},
        lvs \in {Absent, CustomLevels, SilentRaised},
        cl \in {Undef, "silent"}}

\* the options the loggers of SpecRender are built with
RenderOptions ==
    {Opts(Undef, Absent, fmt, tm, Undef, cols) :
        fmt \in {Undef, "simple"},
        tm \in {Undef},
        cols \in {Absent, ObjectValue(<<(<<"error", "ESC[31m">>)>>)}}

\* the options validateOptions is given in SpecCtor
CtorOptions ==
    {Opts(lv, lvs, fmt, tm, cl, cols) :
        lv \in {Undef, "silent", "custom", "bogus"},
        lvs \in {Absent, NullValue, StringValue, CustomLevels, SilentRaised,
                 ObjectValue(<<(<<"silent", IntV(-1)>>)>>),
                 ObjectValue(<<(<<"error", IntV(-1)>>)>>),
                 ObjectValue(<<(<<"error", FracV>>)>>),
                 ObjectValue(<<(<<"error", StrV>>)>>),
                 ObjectValue(<<(<<"custom", IntV(4)>>), (<<"debug", IntV(-1)>>)>>)},
        fmt \in {Undef, "simple", "bogus"},
        tm \in {Undef, "long", "bogus"},
        cl \in {Undef, "error", "custom", "bogus"},
        cols \in {Absent, NullValue, StringValue, ObjectValue(<<(<<"error", "ESC[31m">>)>>)}}

(***************************************************************************)
(* Specifications                                                          *)
(***************************************************************************)
\* Spec: a logger with its built-in formatters; gate, caller lookup, level
Next ==
    \/ \E o \in LoggerOptions : Construct(o, FALSE)
    \/ \E l \in LevelNames, m \in GateMessages, st \in Stacks, sinkOk \in BOOLEAN :
          Log(l, m, st, sinkOk)
    \/ \E method \in {"level", "setLevel"}, a \in LevelArgs : LevelCall(method, a)

Spec == Init /\ [][Next]_vars

\* SpecRender: a logger whose registry is assigned to; the render chain
NextRender ==
    \/ \E o \in RenderOptions, tty \in BOOLEAN : Construct(o, tty)
    \/ \E l \in {"error", "info", "debug", "bogus"}, m \in Messages, sinkOk \in BOOLEAN :
          Log(l, m, CallerStack, sinkOk)
    \/ \E slot \in {"json", "simple"}, kind \in FormatterKinds : AssignFormatter(slot, kind)

SpecRender == Init /\ [][NextRender]_vars

\* SpecCtor: one construction per behaviour, its options drawn at the start
InitCtor ==
    /\ constructed = FALSE
    /\ options = None
    /\ isRedirected = None
    /\ formatters = None
    /\ callerErrorCount = None
    /\ levelInEffect = None
    /\ prepareStackTrace = Undef
    /\ peer = NoPeer
    /\ \E o \in CtorOptions, tty \in BOOLEAN : last = [op |-> "calling new", opts |-> o, tty |-> tty]

NextCtor == last.op = "calling new" /\ Construct(last.opts, last.tty)

SpecCtor == InitCtor /\ [][NextCtor]_vars

\* SpecFormat: one call of format per behaviour, its arguments drawn at the start
InitFormat ==
    /\ constructed = FALSE
    /\ options = None
    /\ isRedirected = None
    /\ formatters = None
    /\ callerErrorCount = None
    /\ levelInEffect = None
    /\ prepareStackTrace = Undef
    /\ peer = NoPeer
    /\ \E f \in Templates, args \in ArgLists : last = [op |-> "calling format", f |-> f, args |-> args]

FormatCall ==
    /\ last.op = "calling format"
    /\ last' = [op |-> "format", f |-> last.f, args |-> last.args,
                result |-> format(last.f, last.args)]
    /\ UNCHANGED <<constructed, options, isRedirected, formatters, callerErrorCount,
                   levelInEffect, prepareStackTrace, peer>>

SpecFormat == InitFormat /\ [][FormatCall]_vars

\* SpecMessage: one error call per behaviour on a logger built with no
\* options and a redirected sink, its message drawn at the start
NoOptions == Opts(Undef, Absent, Undef, Undef, Undef, Absent)

InitMessage ==
    /\ constructed = TRUE
    /\ options = MakeOptions(NoOptions)
    /\ isRedirected = TRUE
    /\ formatters = builtinFormatters
    /\ callerErrorCount = 0
    /\ levelInEffect = "info"
    /\ prepareStackTrace = Undef
    /\ peer = NoPeer
    /\ \E f \in Templates, args \in ArgLists :
          last = [op |-> "calling log", message |-> [f |-> f, args |-> args]]

LogMessage == last.op = "calling log" /\ Log("error", last.message, CallerStack, TRUE)

SpecMessage == InitMessage /\ [][LogMessage]_vars

\* SpecJson: one direct call of the built-in jsonFormatter per behaviour,
\* on a logger built with no options; the record is one log builds, with
\* or without caller info, with any of three fields attached to it (a
\* self-referential one, a plain one, the formatterError of the fallback),
\* and JSON.stringify is the real one or one replaced to throw on its
\* first call or first two calls
Attachments ==
    [circular |-> [circular |-> "circ"],
     extra |-> [extra |-> "v"],
     formatterError |-> [formatterError |-> "Formatter failed: Custom formatter error"]]

RECURSIVE Attach(_, _)
Attach(logEntry, names) ==
    IF names = {} THEN logEntry
    ELSE LET n == CHOOSE x \in names : TRUE
         IN Attach(Attachments[n] @@ logEntry, names \ {n})

QuotedMessage == <<"say ", "\"", "hi", "\"">>

JsonEntries ==
    {Attach(MakeEntry(l, msg, include, [callerFile |-> AppFile, callerLine |-> 42]), names) :
        l \in {"error", "debug", "bogus"},
        msg \in {<<"x">>, QuotedMessage},
        include \in BOOLEAN,
        names \in SUBSET (DOMAIN Attachments)}

MaxFaults == 2

InitJson ==
    /\ constructed = TRUE
    /\ options = MakeOptions(NoOptions)
    /\ isRedirected = TRUE
    /\ formatters = builtinFormatters
    /\ callerErrorCount = 0
    /\ levelInEffect = "info"
    /\ prepareStackTrace = Undef
    /\ peer = NoPeer
    /\ \E logEntry \in JsonEntries, faults \in 0..MaxFaults :
          last = [op |-> "calling jsonFormatter", logEntry |-> logEntry, faults |-> faults]

JsonFormatterCall ==
    /\ last.op = "calling jsonFormatter"
    /\ last' = [op |-> "jsonFormatter", logEntry |-> last.logEntry, faults |-> last.faults,
                result |-> jsonFormatter(last.logEntry, last.faults)]
    /\ UNCHANGED <<constructed, options, isRedirected, formatters, callerErrorCount,
                   levelInEffect, prepareStackTrace, peer>>

SpecJson == InitJson /\ [][JsonFormatterCall]_vars

\* SpecSimple: one direct call of the built-in simpleFormatter per
\* behaviour, on a logger built with no options; the record is one log
\* builds: without caller info, with the caller found, with the pair of a
\* failed lookup, with the pair of a stack that never leaves the logger
SimpleCallers ==
    {[callerFile |-> AppFile, callerLine |-> 42],
     [callerFile |-> UnknownFile, callerLine |-> 0],
     [callerFile |-> LoggerFile, callerLine |-> 0]}

SimpleEntries ==
    {MakeEntry(l, msg, FALSE, NoLookup) : l \in LevelNames, msg \in {<<"x">>, QuotedMessage}}
    \cup {MakeEntry(l, msg, TRUE, c) :
            l \in LevelNames, msg \in {<<"x">>, QuotedMessage}, c \in SimpleCallers}

InitSimple ==
    /\ constructed = TRUE
    /\ options = MakeOptions(NoOptions)
    /\ isRedirected = TRUE
    /\ formatters = builtinFormatters
    /\ callerErrorCount = 0
    /\ levelInEffect = "info"
    /\ prepareStackTrace = Undef
    /\ peer = NoPeer
    /\ \E logEntry \in SimpleEntries :
          last = [op |-> "calling simpleFormatter", logEntry |-> logEntry]

SimpleFormatterCall ==
    /\ last.op = "calling simpleFormatter"
    /\ last' = [op |-> "simpleFormatter", logEntry |-> last.logEntry,
                result |-> simpleFormatter(last.logEntry)]
    /\ UNCHANGED <<constructed, options, isRedirected, formatters, callerErrorCount,
                   levelInEffect, prepareStackTrace, peer>>

SpecSimple == InitSimple /\ [][SimpleFormatterCall]_vars

\* SpecConfig: a logger on a redirected sink that is logged to, whose level
\* is set and whose registry is assigned to, in any order
NextConfig ==
    \/ \E o \in RenderOptions : Construct(o, FALSE)
    \/ \E l \in {"error", "debug"}, m \in GateMessages, st \in {CallerStack, NoStack},
          sinkOk \in BOOLEAN : Log(l, m, st, sinkOk)
    \/ \E a \in {NoArgs, Arg("debug"), Arg("info"), Arg("bogus")} : LevelCall("level", a)
    \/ \E slot \in {"json", "simple"}, kind \in {"jsonFormatter", "simpleFormatter", "throws"} :
          AssignFormatter(slot, kind)

SpecConfig == Init /\ [][NextConfig]_vars

\* SpecHook: two loggers of one process, this one and a peer built with no
\* options, and an application that assigns Error.prepareStackTrace
AppHook == "application hook"

\* Error.prepareStackTrace = h, by the application
SetHook(h) ==
    /\ prepareStackTrace' = h
    /\ last' = [op |-> "set hook", hook |-> h]
    /\ UNCHANGED <<constructed, options, isRedirected, formatters, callerErrorCount,
                   levelInEffect, peer>>

\* peer.error("x") with err.stack = stack: the rank of error is within the
\* default callerLevel, so the peer's getCallerInfo runs
PeerLog(stack) ==
    /\ peer.exists
    /\ LET r == CallerLookup(peer.callerErrorCount, stack) IN
       /\ r.count <= MaxCallerErrorCount
       /\ peer' = [peer EXCEPT !.callerErrorCount = r.count]
       /\ prepareStackTrace' = HookAfter(prepareStackTrace, stack)
       /\ last' = [op |-> "peer log", stack |-> stack, lookupFailed |-> r.failed,
                   diag |-> r.diag]
    /\ UNCHANGED <<constructed, options, isRedirected, formatters, callerErrorCount,
                   levelInEffect>>

InitHook ==
    /\ constructed = FALSE
    /\ options = None
    /\ isRedirected = None
    /\ formatters = None
    /\ callerErrorCount = None
    /\ levelInEffect = None
    /\ prepareStackTrace = Undef
    /\ peer = [exists |-> TRUE, callerErrorCount |-> 0]
    /\ last = [op |-> "none"]

NextHook ==
    \/ Construct(NoOptions, FALSE)
    \/ \E l \in {"error", "debug"}, st \in Stacks : Log(l, Message(<<"x">>, <<>>), st, TRUE)
    \/ \E st \in Stacks : PeerLog(st)
    \/ \E h \in {Undef, AppHook} : SetHook(h)

SpecHook == InitHook /\ [][NextHook]_vars

(***************************************************************************)
(* Properties                                                              *)
(***************************************************************************)
StandardLevels == {"error", "warn", "info", "debug"}

\* C1: a log call whose level ranks above the current level returns
\* without writing to the sink, without building a record or invoking a
\* formatter, and without a caller lookup: no diagnostic is emitted and the
\* caller-failure counter keeps its value.
C1_GatedCallDoesNothing ==
    [][(/\ last'.op = "log"
        /\ last'.level \in DOMAIN options.levels
        /\ options.levels[last'.level] > options.levels[options.level])
       => /\ last'.outcome = "gated"
          /\ last'.written = <<>>
          /\ last'.entry = <<>>
          /\ last'.invoked = <<>>
          /\ last'.lookups = 0
          /\ last'.diag = <<>>
          /\ callerErrorCount' = callerErrorCount]_vars

\* a call was discarded by the gate while the counter was not zero
C1_Witness ==
    /\ last.op = "log"
    /\ last.outcome = "gated"
    /\ last.level \in DOMAIN options.levels
    /\ options.levels[last.level] > options.levels[options.level]
    /\ callerErrorCount > 0

\* C2 (as claimed): an accepted log call made with a working sink writes
\* to the sink exactly once.
C2_OneWritePerAcceptedCall ==
    (/\ last.op = "log"
     /\ last.level \in DOMAIN options.levels
     /\ options.levels[last.level] <= options.levels[options.level]
     /\ last.sinkOk)
    => Len(last.written) = 1

\* C3 (as claimed): a log call at a level of the table reaches the sink if
\* and only if its rank is at most the rank of the level in effect, the
\* level of the most recent setter call that returned or of construction.
C3_EmittedIffWithinLevelInEffect ==
    (last.op = "log" /\ last.level \in DOMAIN options.levels)
    => ((last.outcome \in {"written", "sinkRaised"})
        <=> (options.levels[last.level] <= options.levels[levelInEffect]))

\* C4 (as claimed): while the current level is silent, error, warn, info
\* and debug calls write nothing.
C4_SilentWritesNothing ==
    (/\ last.op = "log"
     /\ options.level = "silent"
     /\ last.level \in StandardLevels)
    => last.written = <<>>

\* C5 (as claimed): format returns a string and never raises.
C5_FormatNeverRaises == (last.op = "format") => last.result.ok

\* the text handed to the sink, without the colour codes around it
Body(w) == IF w.kind = "coloured" THEN w.body ELSE w

\* C6: when the formatter of the configured render mode throws or returns a
\* non-text value while the json slot holds the built-in structured
\* formatter, a call that reached a formatter and has a working sink does
\* not raise and writes one line: the JSON text of the record with one more
\* field, formatterError, which names the failure; msg is the interpolated
\* message.
C6_BrokenFormatterFallsBackToJson ==
    (/\ last.op = "log"
     /\ last.invoked # <<>>
     /\ last.sinkOk
     /\ formatters[options.format] \in {"throws", "nonString"}
     /\ formatters.json = "jsonFormatter")
    => /\ last.outcome = "written"
       /\ Len(last.written) = 1
       /\ LET line == Body(last.written[1])
              logEntry == last.entry[1]
              kept == {k \in DOMAIN logEntry : k = "levelNumber" => logEntry[k].def}
          IN /\ line.kind = "json"
             /\ DOMAIN line.obj = kept \cup {"formatterError"}
             /\ \A k \in kept : line.obj[k] = logEntry[k]
             /\ line.obj.msg = format(last.message.f, last.message.args).text
             /\ line.obj.formatterError =
                    (IF formatters[options.format] = "throws"
                     THEN "Formatter failed: Custom formatter error"
                     ELSE "Formatter failed: Formatter returned object instead of string")

\* the simple formatter threw and the call wrote the JSON fallback
C6_Witness ==
    /\ last.op = "log"
    /\ last.outcome = "written"
    /\ options.format = "simple"
    /\ formatters.simple = "throws"
    /\ formatters.json = "jsonFormatter"
    /\ last.invoked = <<"throws", "jsonFormatter">>
    /\ Body(last.written[1]).kind = "json"
    /\ "formatterError" \in DOMAIN Body(last.written[1]).obj

C8_CallerFailureReporting ==
    [][IF last'.op = "log" /\ last'.lookups = 1
       THEN IF last'.lookupFailed
            THEN LET k == callerErrorCount + 1
                     reports == {i \in DOMAIN last'.diag :
                                    last'.diag[i] = "Error retrieving caller info"}
                     notices == {i \in DOMAIN last'.diag :
                                    last'.diag[i] = "Suppressing further caller error messages"}
                 IN /\ callerErrorCount' = k
                    /\ Cardinality(reports) = (IF k <= 5 THEN 1 ELSE 0)
                    /\ Cardinality(notices) = (IF k = 5 THEN 1 ELSE 0)
                    /\ Len(last'.diag) = Cardinality(reports) + Cardinality(notices)
                    /\ (k >= 6) => (last'.diag = <<>>)
                    /\ (last'.outcome # "formatRaised" /\ last'.sinkOk)
                          => Len(last'.written) = 1
            ELSE callerErrorCount' = 0 /\ last'.diag = <<>>
       ELSE constructed => callerErrorCount' = callerErrorCount]_vars

\* the sixth failure in a row: counted, not reported, the call still written
C8_Witness ==
    /\ last.op = "log"
    /\ last.lookupFailed
    /\ callerErrorCount = 6
    /\ last.diag = <<>>
    /\ last.outcome = "written"

\* C9: level() (and an undefined argument) returns the current level and
\* changes nothing; level(name) sets the current level to name and returns
\* it when name is a key of the level table, custom names included; when
\* name is not a key it raises and the current level stays; setLevel does
\* the same.
C9_LevelAccessor ==
    [][(last'.op = "level")
       => LET a == last'.arg IN
          /\ last'.method \in {"level", "setLevel"}
          /\ UNCHANGED <<constructed, isRedirected, formatters, callerErrorCount>>
          /\ options' = [options EXCEPT !.level = options'.level]
          /\ IF ~a.given \/ a.v = Undef
             THEN /\ ~last'.raised
                  /\ last'.returned = <<options.level>>
                  /\ options' = options
             ELSE IF a.v \in DOMAIN options.levels
             THEN /\ ~last'.raised
                  /\ last'.returned = <<a.v>>
                  /\ options'.level = a.v
             ELSE /\ last'.raised
                  /\ last'.returned = <<>>
                  /\ options' = options]_vars

\* setLevel("custom") returned on a logger built with levels {custom: 4}
C9_Witness ==
    /\ last.op = "level"
    /\ last.method = "setLevel"
    /\ last.arg = Arg("custom")
    /\ ~last.raised
    /\ last.before # "custom"
    /\ options.level = "custom"

\* C10 (as claimed): construction fails if and only if one of the six
\* checks is violated, level, format, time, callerLevel, colours (a
\* key-value structure), levels (a key-value structure of non-negative
\* integers); the failure is the descriptive one of the first violated
\* check; on failure no logger exists.
C10_ConstructionFailsIffCheckViolated ==
    (last.op = "new")
    => LET o == last.opts
           names == {"silent", "error", "warn", "info", "debug"}
           isTable(x) == x.t = "object"
           badLevel == o.level # Undef /\ o.level \notin names
           badFormat == o.format # Undef /\ o.format \notin {"json", "simple"}
           badTime == o.time # Undef /\ o.time \notin {"long", "short"}
           badCaller == o.callerLevel # Undef /\ o.callerLevel \notin names
           badColours == o.colours.t # "undefined" /\ ~isTable(o.colours)
           badLevelsShape == o.levels.t # "undefined" /\ ~isTable(o.levels)
           badLevelsValue ==
               /\ isTable(o.levels)
               /\ \E i \in DOMAIN o.levels.v :
                     LET value == o.levels.v[i][2] IN
                     value.t # "number" \/ value.frac \/ value.n < 0
           expected ==
               IF badLevel THEN "Invalid log level"
               ELSE IF badFormat THEN "Invalid format"
               ELSE IF badTime THEN "Invalid time"
               ELSE IF badCaller THEN "Invalid callerLevel"
               ELSE IF badColours THEN "colours option must be an object"
               ELSE IF badLevelsShape THEN "levels option must be an object"
               ELSE IF badLevelsValue THEN "Level value must be a non-negative integer"
               ELSE "none"
       IN /\ last.error.kind = expected
          /\ constructed <=> (expected = "none")

\* C11 (as claimed): construction accepts a `level` and a `callerLevel`
\* exactly when the name is a key of the active level table, the built-in
\* table merged with the supplied `levels`; a custom name supplied in
\* `levels` is accepted.
C11_LevelNamesOfActiveTableAccepted ==
    (last.op = "new")
    => LET o == last.opts
           supplied == IF o.levels.t = "object"
                       THEN {o.levels.v[i][1] : i \in DOMAIN o.levels.v}
                       ELSE {}
           active == {"silent", "error", "warn", "info", "debug"} \cup supplied
       IN /\ (last.error.kind = "Invalid log level")
                <=> (o.level # Undef /\ o.level \notin active)
          /\ (last.error.kind = "Invalid callerLevel")
                => (o.callerLevel # Undef /\ o.callerLevel \notin active)

\* C12 (as claimed): in a constructed logger the rank of silent is -1 and
\* every other rank is a non-negative integer; a `silent` entry of the
\* supplied `levels` is not validated, so it never makes construction fail.
C12_SilentRankFixed ==
    (last.op = "new")
    => /\ constructed
            => /\ options.levels["silent"] = -1
               /\ \A n \in DOMAIN options.levels : n # "silent" => options.levels[n] >= 0
       /\ (last.error.kind = "Level value must be a non-negative integer")
            => last.error.about # "silent"

\* C13 (as claimed): a log call whose target level is silent is discarded
\* by the gate whatever the current level, and writes nothing.
C13_SilentTargetNeverEmits ==
    (last.op = "log" /\ last.level = "silent")
    => (last.outcome = "gated" /\ last.written = <<>>)

\* C14: when the write of an accepted call raises, the call raises with it
\* and nothing is written, by that write or by a second one; the level,
\* the rest of the configuration and the registry are as before the call;
\* and the next call, made with a working sink at a level the gate lets
\* through (the same level is one) with a message format renders, is
\* written once.
C14_SinkFailurePropagates ==
    [][/\ (/\ last'.op = "log"
           /\ ~last'.sinkOk
           /\ format(last'.message.f, last'.message.args).ok)
          => /\ last'.outcome = "sinkRaised"
             /\ last'.written = <<>>
             /\ Len(last'.invoked) >= 1
             /\ UNCHANGED <<constructed, options, isRedirected, formatters, levelInEffect>>
       /\ (/\ last.op = "log"
           /\ last.outcome = "sinkRaised"
           /\ last'.op = "log"
           /\ last'.sinkOk)
          => /\ (last'.level = last.level) => (last'.outcome # "gated")
             /\ (/\ last'.outcome # "gated"
                 /\ format(last'.message.f, last'.message.args).ok)
                => (last'.outcome = "written" /\ Len(last'.written) = 1)]_vars

\* the write of a debug call raised on a logger whose level a setter call
\* had set to debug, and the level is still debug
C14_Witness ==
    /\ last.op = "log"
    /\ last.outcome = "sinkRaised"
    /\ last.level = "debug"
    /\ last.written = <<>>
    /\ options.level = "debug"
    /\ levelInEffect = "debug"

\* C15: the colour table of a logger is the default table with the
\* supplied `colours` entries over it.  For every emitted call whose
\* rendered value is text: on a terminal the text written is the level's
\* colour code from that table (the text "undefined" for a level the table
\* has no entry for), the rendered text, the reset code; on a redirected
\* sink it is the rendered text alone.
C15_ColourOnTerminalOnly ==
    (last.op = "log" /\ last.outcome = "written")
    => LET L == last.level
           rendered == Render(last.entry[1]).formattedLog
           colour == IF L \in DOMAIN options.colours THEN options.colours[L]
                     ELSE "undefined"
       IN /\ DOMAIN options.colours = {"error", "warn", "info", "debug", "reset"}
          /\ options.colours["error"] \in {"ESC[91m", "ESC[31m"}
          /\ options.colours["warn"] = "ESC[33m"
          /\ options.colours["info"] = "ESC[94m"
          /\ options.colours["debug"] = "ESC[37m"
          /\ options.colours["reset"] = "ESC[0m"
          /\ Len(last.written) = 1
          /\ IsString(rendered)
                => IF isRedirected
                   THEN last.written[1] = rendered
                   ELSE last.written[1] = [kind |-> "coloured", colour |-> colour,
                                           body |-> rendered, reset |-> "ESC[0m"]

\* an error call on a terminal, colours {error: ESC[31m}: the line is
\* wrapped in the supplied code and the reset code
C15_Witness ==
    /\ last.op = "log"
    /\ last.outcome = "written"
    /\ last.level = "error"
    /\ ~isRedirected
    /\ last.written[1].kind = "coloured"
    /\ last.written[1].colour = "ESC[31m"
    /\ last.written[1].reset = "ESC[0m"
    /\ IsString(last.written[1].body)

C17_ArgumentsMatchedLeftToRight ==
    (last.op = "format" /\ last.f.text /\ last.result.ok)
    => LET toks == last.f.toks
           args == last.args
           text == last.result.text
           m == Len(args)
           k(j) == Cardinality({q \in 1..j : toks[q] \in {"%s", "%d", "%i", "%f", "%j"}})
           n == k(Len(toks))
       IN /\ Len(text) = Len(toks) + (IF m > n THEN 2 * (m - n) ELSE 0)
          /\ \A j \in 1..Len(toks) :
                IF toks[j] \in {"%s", "%d", "%i", "%f", "%j"}
                THEN IF k(j) <= m
                     THEN <<text[j]>> = Substitute(toks[j], args[k(j)]).text
                     ELSE text[j] = toks[j]
                ELSE toks[j] # "%%" => text[j] = toks[j]
          /\ \A a \in (n + 1)..m :
                /\ text[Len(toks) + 2 * (a - n) - 1] = " "
                /\ <<text[Len(toks) + 2 * (a - n)]>> = TrailingDisplay(args[a]).text

\* format("x%s", "a", 1.5) returned "xa 1.5"
C17_Witness ==
    /\ last.op = "format"
    /\ last.f = TextTemplate(<<"x", "%s">>)
    /\ last.args = <<"str", "num">>
    /\ last.result = Ok(<<"x", "a", " ", "1.5">>)

\* C18: in the result of format for a text template, every %% is the two
\* characters %% when there are no arguments and the single character %
\* when there is at least one, also after the last argument was consumed;
\* a %% consumes no argument: the specifier that follows it takes the next
\* argument, and the arguments no specifier took are all appended.
C18_PercentPercentByArgumentCount ==
    (last.op = "format" /\ last.f.text /\ last.result.ok)
    => LET toks == last.f.toks
           args == last.args
           text == last.result.text
           taken(j) == Cardinality({q \in 1..j : toks[q] \in Specifiers})
           left == IF Len(args) > taken(Len(toks)) THEN Len(args) - taken(Len(toks)) ELSE 0
       IN /\ \A j \in 1..Len(toks) :
                toks[j] = "%%" => text[j] = (IF args = <<>> THEN "%%" ELSE "%")
          /\ \A j \in 2..Len(toks) :
                (toks[j - 1] = "%%" /\ toks[j] \in Specifiers /\ taken(j) <= Len(args))
                   => <<text[j]>> = Substitute(toks[j], args[taken(j)]).text
          /\ Len(text) = Len(toks) + 2 * left

\* format("%s%%", "a") returned "a%": the %% collapsed after the only
\* argument was consumed
C18_Witness ==
    /\ last.op = "format"
    /\ last.f = TextTemplate(<<"%s", "%%">>)
    /\ last.args = <<"str">>
    /\ last.result = Ok(<<"a", "%">>)

\* C19: a %j that takes an argument is replaced by the compact JSON of
\* the argument, and by the text [Circular] when the argument is
\* self-referential; either way the argument is consumed (it is not
\* appended again and the next specifier takes the next argument) and the
\* rest of the template is rendered as without the failure.  A log call
\* with such a message, no argument of which makes a numeric specifier or
\* the trailing conversion raise, writes one record whose msg is that text.
C19_JsonSpecifierAndCircular ==
    (last.op = "log" /\ last.message.f.text)
    => LET toks == last.message.f.toks
           args == last.message.args
           m == Len(args)
           k(j) == Cardinality({q \in 1..j : toks[q] \in {"%s", "%d", "%i", "%f", "%j"}})
           n == k(Len(toks))
           takesJson == {j \in 1..Len(toks) : toks[j] = "%j" /\ k(j) <= m}
           numericFine == \A j \in 1..Len(toks) :
                             (toks[j] \in {"%d", "%i", "%f"} /\ k(j) <= m)
                                => args[k(j)] \notin {"sym", "thrower", "fnthrow"}
           trailingFine == \A a \in (n + 1)..m : args[a] # "fnthrow"
       IN (takesJson # {} /\ numericFine /\ trailingFine)
          => /\ last.outcome = "written"
             /\ Len(last.written) = 1
             /\ last.written[1].kind = "json"
             /\ last.written[1].obj.msg = last.entry[1].msg
             /\ LET msg == last.entry[1].msg IN
                /\ Len(msg) = Len(toks) + (IF m > n THEN 2 * (m - n) ELSE 0)
                /\ \A j \in takesJson :
                      LET v == args[k(j)] IN
                      /\ v = "circ" => msg[j] = "[Circular]"
                      /\ v = "obj" => msg[j] = "{\"k\":\"v\"}"
                      /\ v = "arr" => msg[j] = "[1,2]"
                      /\ v = "str" => msg[j] = "\"a\""
                      /\ v = "num" => msg[j] = "1.5"
                      /\ v = Nul => msg[j] = "null"
                /\ \A j \in (1..Len(toks)) \ takesJson :
                      IF toks[j] \in {"%s", "%d", "%i", "%f"} /\ k(j) <= m
                      THEN <<msg[j]>> = Substitute(toks[j], args[k(j)]).text
                      ELSE toks[j] # "%%" => msg[j] = toks[j]
                /\ \A a \in (n + 1)..m :
                      <<msg[Len(toks) + 2 * (a - n)]>> = TrailingDisplay(args[a]).text

\* logger.error("%jx", circular) wrote one record with msg "[Circular]x"
C19_Witness ==
    /\ last.op = "log"
    /\ last.message = [f |-> TextTemplate(<<"%j", "x">>), args |-> <<"circ">>]
    /\ last.outcome = "written"
    /\ last.entry[1].msg = <<"[Circular]", "x">>
    /\ last.written[1].obj.msg = <<"[Circular]", "x">>

\* C20: the built-in jsonFormatter, given a record whose level and msg
\* are text, returns text.  When the record serializes, the text is its
\* JSON.  When that fails (a self-referential field, a JSON.stringify that
\* throws), the text is the JSON of level, levelNumber, time, pid,
\* hostname, msg, callerFile and callerLine, as far as the record has
\* them, plus a jsonError naming the failure, and of no other field.  When
\* the retry fails too, and only then, it is the hand-built text with the
\* level, the message and the note "Multiple JSON errors occurred".
C20_JsonFormatterStages ==
    (last.op = "jsonFormatter")
    => LET e == last.logEntry
           r == last.result
           firstFails == "circular" \in DOMAIN e \/ last.faults >= 1
           retryFails == last.faults >= 2
           has == {k \in DOMAIN e : k = "levelNumber" => e[k].def}
           safe == has \cap {"level", "levelNumber", "time", "pid", "hostname", "msg",
                             "callerFile", "callerLine"}
       IN /\ r.kind \in {"json", "text"}
          /\ ~firstFails
                => /\ r.kind = "json"
                   /\ DOMAIN r.obj = has
                   /\ \A k \in has : r.obj[k] = e[k]
          /\ (firstFails /\ ~retryFails)
                => /\ r.kind = "json"
                   /\ DOMAIN r.obj = safe \cup {"jsonError"}
                   /\ \A k \in safe : r.obj[k] = e[k]
                   /\ r.obj.jsonError =
                         (IF last.faults >= 1 THEN "JSON stringify failed: Mock JSON error"
                          ELSE "JSON stringify failed: Converting circular structure to JSON")
          /\ (r.kind = "text") <=> (firstFails /\ retryFails)
          /\ retryFails
                => /\ Len(r.atoms) >= 4
                   /\ SubSeq(r.atoms, 1, 3) = <<"{\"level\":\"", e.level, "\",\"msg\":\"">>
                   /\ r.atoms[Len(r.atoms)]
                         = "\",\"jsonError\":\"Multiple JSON errors occurred\"}"
                   /\ (\A i \in DOMAIN e.msg : e.msg[i] # "\"")
                         => SubSeq(r.atoms, 4, Len(r.atoms) - 1) = e.msg

\* a record with caller info, a self-referential field and a plain field
\* attached: the formatter returned the JSON of the known fields and a
\* jsonError, without the two attached fields
C20_Witness ==
    /\ last.op = "jsonFormatter"
    /\ last.faults = 0
    /\ {"circular", "extra", "callerFile"} \subseteq DOMAIN last.logEntry
    /\ last.result.kind = "json"
    /\ "jsonError" \in DOMAIN last.result.obj
    /\ "callerFile" \in DOMAIN last.result.obj
    /\ {"circular", "extra"} \cap DOMAIN last.result.obj = {}

\* C21: the built-in simpleFormatter renders a record with caller info as
\* [time] [LEVEL] [basename of callerFile:callerLine] message, and a
\* record without caller info as [time] [LEVEL] message; LEVEL is the level
\* in upper case, padded on the right with spaces to 5 characters (a longer
\* name is not cut).
C21_SimpleFormatterLayout ==
    (last.op = "simpleFormatter")
    => LET e == last.logEntry
           LEVEL == CASE e.level = "error" -> "ERROR"
                      [] e.level = "warn" -> "WARN "
                      [] e.level = "info" -> "INFO "
                      [] e.level = "debug" -> "DEBUG"
                      [] e.level = "silent" -> "SILENT"
                      [] e.level = "custom" -> "CUSTOM"
                      [] e.level = "bogus" -> "BOGUS"
           head == <<"[">> \o e.time \o <<"] [", LEVEL>>
       IN /\ last.result.kind = "text"
          /\ IF "callerFile" \in DOMAIN e
             THEN last.result.atoms
                     = head \o <<"] [", e.callerFile[Len(e.callerFile)], ":",
                                 (IF e.callerLine = 42 THEN "42" ELSE "0"), "] ">> \o e.msg
             ELSE last.result.atoms = head \o <<"] ">> \o e.msg

\* a warn record with the caller app/main.ts:42 was rendered with the
\* padded level and the segment [main.ts:42]
C21_Witness ==
    /\ last.op = "simpleFormatter"
    /\ last.logEntry.level = "warn"
    /\ "callerFile" \in DOMAIN last.logEntry
    /\ last.result.atoms = <<"[", "2024-01-15", " ", "10:30", "] [", "WARN ", "] [",
                             "main.ts", ":", "42", "] ", "x">>

\* C22: when the formatter of the configured mode throws or returns a
\* non-text value and the json slot, called as fallback, throws too (or
\* holds no function), a call that has a working sink does not raise and
\* writes one line, the hand-built text with the level, the interpolated
\* message and "Formatter failed: " followed by the reason of the first
\* failure; two formatter calls were made, and never more than two.
C22_MinimalTextWhenFallbackThrows ==
    (last.op = "log" /\ last.invoked # <<>>)
    => /\ Len(last.invoked) <= 2
       /\ (/\ last.sinkOk
           /\ SelectFormatter \in {"throws", "nonString", Undef}
           /\ formatters.json \in {"throws", Undef})
          => /\ last.outcome = "written"
             /\ Len(last.written) = 1
             /\ Len(last.invoked) = 2
             /\ LET line == Body(last.written[1])
                    msg == format(last.message.f, last.message.args).text
                    reason == CASE SelectFormatter = "throws" -> "Custom formatter error"
                                [] SelectFormatter = "nonString"
                                      -> "Formatter returned object instead of string"
                                [] OTHER -> "formatter is not a function"
                IN /\ line.kind = "text"
                   /\ SubSeq(line.atoms, 1, 3) = <<"{\"level\":\"", last.level, "\",\"msg\":\"">>
                   /\ (\A i \in DOMAIN msg : msg[i] # "\"")
                         => SubSeq(line.atoms, 4, 3 + Len(msg)) = msg
                   /\ SubSeq(line.atoms, Len(line.atoms) - 2, Len(line.atoms))
                         = <<"\",\"formatterError\":\"Formatter failed: ", reason, "\"}">>

\* the simple formatter threw, the json slot threw as well, and the call
\* wrote the hand-built text
C22_Witness ==
    /\ last.op = "log"
    /\ last.outcome = "written"
    /\ options.format = "simple"
    /\ formatters.simple = "throws"
    /\ formatters.json = "throws"
    /\ last.invoked = <<"throws", "throws">>
    /\ Body(last.written[1]).kind = "text"

\* C23 (as claimed): in the third-stage text of jsonFormatter every double
\* quote of the message is preceded by a backslash, so that the msg field
\* of the text decodes to the message.
C23_LastResortEscapesQuotes ==
    (last.op = "jsonFormatter" /\ last.result.kind = "text")
    => LET msg == last.logEntry.msg
           escaped == [i \in DOMAIN msg |-> IF msg[i] = "\"" THEN "\\\"" ELSE msg[i]]
           atoms == last.result.atoms
       IN SubSeq(atoms, 4, Len(atoms) - 1) = escaped

\* C24 (as claimed): for a template that is not a string, the result is
\* the template and the arguments joined by single spaces, each in the
\* display form of %s and of the trailing arguments: null as null,
\* undefined as undefined, an array as [ e1, e2 ], a plain object as
\* { k: v }, a string or a number as String gives it.
C24_PlainJoinUsesDisplayForm ==
    (/\ last.op = "format"
     /\ ~last.f.text
     /\ \A i \in DOMAIN last.args : last.args[i] \in {"str", "num", Nul, Undef, "arr", "obj"}
     /\ last.f.v \in {"num", Nul, Undef, "arr", "obj"})
    => LET all == <<last.f.v>> \o last.args
           display(v) == CASE v = Nul -> "null"
                           [] v = Undef -> "undefined"
                           [] v = "arr" -> "[ 1, 2 ]"
                           [] v = "obj" -> "{ k: 'v' }"
                           [] v = "str" -> "a"
                           [] v = "num" -> "1.5"
           text == last.result.text
       IN /\ last.result.ok
          /\ Len(text) = 2 * Len(all) - 1
          /\ \A i \in DOMAIN all : text[2 * i - 1] = display(all[i])
          /\ \A i \in 1..(Len(all) - 1) : text[2 * i] = " "

\* C25: in every state of a constructed logger, after any sequence of
\* level calls that returned or raised and of log calls, the current level
\* and the callerLevel are keys of the level table.
C25_LevelsAreKeysOfTable ==
    constructed
    => /\ options.level \in DOMAIN options.levels
       /\ options.callerLevel \in DOMAIN options.levels

\* on a logger whose level had been set to the custom level, a setter call
\* with an unknown name raised and the level is still the custom one
C25_Witness ==
    /\ constructed
    /\ last.op = "level"
    /\ last.arg = Arg("bogus")
    /\ last.raised
    /\ options.level = "custom"
    /\ options.level \in DOMAIN options.levels

\* C26: on a constructed logger no operation changes format, time,
\* callerLevel, the level table or the colour table; a log call, whatever
\* its outcome, changes neither the level nor the registry; the level
\* changes only in a setter call that was given a name and returned; and a
\* call made while the slot of the configured mode holds its built-in
\* formatter is rendered by that formatter, whatever failed before.
C26_OnlySetterChangesConfiguration ==
    [][constructed
       => /\ options'.format = options.format
          /\ options'.time = options.time
          /\ options'.callerLevel = options.callerLevel
          /\ options'.levels = options.levels
          /\ options'.colours = options.colours
          /\ isRedirected' = isRedirected
          /\ (last'.op = "log") => (options' = options /\ formatters' = formatters)
          /\ (options'.level # options.level)
                => /\ last'.op = "level"
                   /\ ~last'.raised
                   /\ last'.arg = Arg(options'.level)
          /\ (/\ last'.op = "log"
              /\ last'.outcome = "written"
              /\ formatters'[options'.format] = builtinFormatters[options'.format])
             => /\ Len(last'.invoked) = 1
                /\ IF options'.format = "simple"
                   THEN last'.written[1] = simpleFormatter(last'.entry[1])
                   ELSE /\ last'.written[1].kind = "json"
                        /\ "formatterError" \notin DOMAIN last'.written[1].obj]_vars

\* a debug call on a logger in simple mode whose simple formatter throws
\* fell back to json; the mode is still simple and the level still debug
C26_Witness ==
    /\ last.op = "log"
    /\ last.outcome = "written"
    /\ last.invoked = <<"throws", "jsonFormatter">>
    /\ last.level = "debug"
    /\ options.format = "simple"
    /\ options.level = "debug"

\* C27 (as claimed): the value an accepted log call hands to the sink is
\* text, whatever the functions in the registry return.
C27_SinkReceivesText ==
    (last.op = "log" /\ last.outcome = "written")
    => \A i \in DOMAIN last.written : IsString(last.written[i])

\* C28 (as claimed): a log call whose level is not a key of the level
\* table writes nothing, and every record built has a level of the table
\* and that level's rank as levelNumber.
C28_UnknownLevelWritesNothing ==
    (last.op = "log")
    => /\ (last.level \notin DOMAIN options.levels)
             => (last.written = <<>> /\ last.entry = <<>>)
       /\ \A i \in DOMAIN last.entry :
             /\ last.entry[i].level \in DOMAIN options.levels
             /\ last.entry[i].levelNumber.def
             /\ last.entry[i].levelNumber.n = options.levels[last.entry[i].level]

\* C29: the caller-failure counter is 0 after construction; a log call
\* that is let through at a level whose rank is at most the callerLevel's
\* makes one lookup, which adds one to the counter when it fails and sets
\* it to 0 when it succeeds; every other step (a gated log call, a log call
\* above the callerLevel, a level or setLevel call) leaves the counter as it
\* is.  The counter is thus the number of failed lookups since the last
\* successful one, calls without a lookup in between not counting.
C29_CounterFollowsLookupsOnly ==
    [][/\ (~constructed /\ constructed') => callerErrorCount' = 0
       /\ constructed
          => LET L == last'.level
                 looksUp == /\ last'.op = "log"
                            /\ ~(/\ L \in DOMAIN options.levels
                                 /\ options.levels[L] > options.levels[options.level])
                            /\ L \in DOMAIN options.levels
                            /\ options.levels[L] <= options.levels[options.callerLevel]
             IN IF looksUp
                THEN /\ last'.lookups = 1
                     /\ last'.lookupFailed
                           <=> (~last'.stack.array \/ last'.stack.frames = <<>>)
                     /\ callerErrorCount'
                           = (IF last'.lookupFailed THEN callerErrorCount + 1 ELSE 0)
                ELSE /\ (last'.op = "log") => (last'.lookups = 0)
                     /\ callerErrorCount' = callerErrorCount]_vars

\* four lookups in a row had failed and a level setter call was made: the
\* counter is still 4
C29_Witness ==
    /\ last.op = "level"
    /\ ~last.raised
    /\ last.arg.given
    /\ callerErrorCount = 4

\* C30: a log call of either logger, whether its caller lookup succeeds,
\* fails or is not made, leaves Error.prepareStackTrace at the value it had
\* before the call, so the hook changes only when the application assigns
\* it; a log call of one logger changes no field of the other.
C30_HookRestoredInstancesIndependent ==
    [][/\ (last'.op \in {"log", "peer log"}) => (prepareStackTrace' = prepareStackTrace)
       /\ (prepareStackTrace' # prepareStackTrace) => (last'.op = "set hook")
       /\ (last'.op = "log") => (peer' = peer)
       /\ (last'.op = "peer log")
             => UNCHANGED <<constructed, options, isRedirected, formatters,
                            callerErrorCount>>]_vars

\* with the application's hook installed, a lookup of this logger failed
\* while the peer's counter stood at another value: the hook is still the
\* application's
C30_Witness ==
    /\ last.op = "log"
    /\ last.lookups = 1
    /\ last.lookupFailed
    /\ prepareStackTrace = AppHook
    /\ callerErrorCount = 1
    /\ peer.exists
    /\ peer.callerErrorCount = 3

====
